---------------------------- MODULE Spec2Model ----------------------------
(***************************************************************************)
(* Streaming speech-recognition session lifecycle of Project Alice.        *)
(*                                                                         *)
(*   Spec       the embedded engine (core/asr/model/CoquiAsr.py): one      *)
(*              decodeStream call at a time, stepped statement by          *)
(*              statement, racing with the VAD handlers onVadUp/onVadDown  *)
(*              and with stop commands routed through the recorder         *)
(*              registry.                                                  *)
(*   SpecSnips  the delegated engine (core/asr/model/SnipsAsr.py): the     *)
(*              listening toggle, the polling decodeStream, onStart/onStop *)
(*              and the supervised recognition subprocess.                 *)
(*   SpecLive   Spec with the decodeStream call running to completion      *)
(*              (weak fairness of its statements).                         *)
(*   SpecDeco   the decorators Online and IfSetting                        *)
(*              (core/util/Decorators.py), applied to every combination of *)
(*              arguments and environment.                                 *)
(*   SpecBug    BugReportManager (core/util/BugReportManager.py):          *)
(*              addToHistory and onStop, with the flag file.               *)
(*   SpecWidget Widget.toDict (core/webui/model/Widget.py) on two widgets  *)
(*              that differ at most in their configs.                      *)
(*                                                                         *)
(* Recorder, the recorder registry (ASRManager), the Asr base class and    *)
(* SubprocessManager are not part of the available sources; they are       *)
(* modelled from the written specification (sections 4.2, 4.6, 5).         *)
(***************************************************************************)
EXTENDS Integers, Sequences, FiniteSets, TLC

\* ------------------------------------------------------------------ bounds
MaxSessions == 2      \* decodeStream calls per behaviour
Timeout     == 2      \* configured timeout, in chunk periods
MaxCount    == 2      \* saturation value of the history counters
MaxDecodes  == 2      \* delegated decodeStream calls per behaviour
MaxCrashes  == 2      \* unexpected exits per supervised process
MaxLiveSessions == 1  \* decodeStream calls per behaviour where termination is checked
MaxCalls    == 2      \* addToHistory calls per behaviour
MaxStops    == 2      \* BugReportManager.onStop calls per behaviour

\* --------------------------------------------------------------- constants
Likelihood == 1       \* likelihood=1 / likelihood=1.0
Seconds    == 0       \* seconds=0
PollMs     == 100     \* time.sleep(0.1)
NoId       == -1      \* data.get('id', -1)
Created    == 201     \* request.status_code != 201 (line 104)

Devices  == {"d1", "d2"}
Texts    == {"", "a", "b"}          \* what the acoustic model may answer
Nil      == "<None>"                \* Python's None for a text-valued local
NoRec    == 0                       \* no recorder (None / no registry entry)
RecIds   == 1..MaxSessions          \* the recorder of session s is recorder s

Sat(n)   == IF n >= MaxCount THEN MaxCount ELSE n + 1

VARIABLES
    \* ---- embedded engine (CoquiAsr)
    triggerFlag,     \* self._triggerFlag (VadGate)
    engRecorder,     \* self._recorder
    registry,        \* RecorderRegistry: deviceUid -> recorder
    rec,             \* the recorders: handle open, stop requested
    ctx,             \* the stream contexts created by createStream()
    pc,              \* position of the decodeStream call
    sess,            \* number of decodeStream calls made; the current session
    sdev,            \* session.deviceUid of the current call
    streamContext,   \* local streamContext
    result,          \* local result
    text,            \* local text
    elapsed,         \* chunk periods elapsed since the recorder was acquired
    endCause,        \* why the chunk loop of the current call ended
    ops,             \* calls issued by the current decodeStream, in order
    ret,             \* what the latest decodeStream call returned
    hist,            \* observations used by the properties (never read by the code)
    last,            \* the last handler or step executed and what it saw
    \* ---- delegated engine (SnipsAsr) and its supervised subprocess
    lang,            \* LanguageManager.activeLanguage
    engine,          \* life cycle of the engine: init, started, failed, stopped
    listening,       \* self._listening
    spc,             \* position of the delegated decodeStream call
    sret,            \* what the latest delegated decodeStream call returned
    proc,            \* SubprocessManager: the supervised processes by name
    shist,           \* observations used by the properties
    service,         \* the system service snips-asr (systemd): active, enabled
    cfg,             \* ConfigManager: the Alice configuration read by onStart
    \* ---- decorators (core/util/Decorators.py)
    dcall,           \* the decorated call being made: decorator arguments and environment
    dres,            \* what the call did: wrapped method called, value returned, raised
    \* ---- BugReportManager (core/util/BugReportManager.py)
    recording,       \* self._recording
    history,         \* self._history
    title,           \* self._title
    flagFile,        \* the flag file alice.bugreport exists
    issues,          \* the issues posted to GitHub
    bhist,           \* observations: the addToHistory calls made, what the last onStop did
    \* ---- Widget (core/webui/model/Widget.py)
    widgets,         \* two widgets built from rows that differ at most in their configs
    wout             \* what toDict returned for each of them

cvars == <<triggerFlag, engRecorder, registry, rec, ctx, pc, sess, sdev,
           streamContext, result, text, elapsed, endCause, ops, ret, hist, last>>

svars == <<lang, engine, listening, spc, sret, proc, shist, service, cfg>>

dvars == <<dcall, dres>>

bvars == <<recording, history, title, flagFile, issues, bhist>>

wvars == <<widgets, wout>>

vars == <<cvars, svars, dvars, bvars, wvars>>

\* ------------------------------------------------------------ return values
Pending     == [kind |-> "pending"]
NoResult    == [kind |-> "None"]
Raised      == [kind |-> "raised"]
ASRResult(t, s, l) == [kind |-> "ASRResult", text |-> t, session |-> s, likelihood |-> l]

Truthy(t)   == t # Nil /\ t # ""

\* ------------------------------------------------------------ the recorder
NewRecorder == [open |-> FALSE, stop |-> FALSE]

\* Recorder.stopRecording(): a cooperative stop request, seen at the next pull
StopRecording(recs, r) ==
    [recs EXCEPT ![r].stop = TRUE]

\* Recorder.__enter__: acquires the audio handle and registers itself
RecorderEnterRec(recs, r) == [recs EXCEPT ![r].open = TRUE]
RecorderEnterReg(reg, r, d)  == [reg EXCEPT ![d] = r]

\* Recorder.__exit__: releases the handle and removes itself from the registry
RecorderExitRec(recs, r) == [recs EXCEPT ![r].open = FALSE]
RecorderExitReg(reg, r, d) == [reg EXCEPT ![d] = IF @ = r THEN NoRec ELSE @]

\* ASRManager.addRecorder(deviceUid, recorder)
AddRecorderReg(reg, d, r) == [reg EXCEPT ![d] = r]

\* ------------------------------------------------------------------- Init
InitHist == [vadUpEver   |-> FALSE,  \* some onVadUp was ever invoked
             earlyDown   |-> FALSE,  \* onVadDown invoked in a chunk loop before any onVadUp
             gatedStopAt |-> -1,     \* time of the loop's first onVadDown that found the flag set
             vadStopEver |-> FALSE,  \* onVadDown ever called stopRecording
             stopsSinceUp|-> 0,      \* stopRecording calls made by onVadDown since the last onVadUp
             everNonEmpty|-> FALSE,  \* some intermediateDecode of the session was non-empty
             chunks      |-> 0,      \* non-sentinel chunks pulled in the session
             endCalled   |-> FALSE,  \* self.end() ran in the session
             flagCleared |-> FALSE,  \* line 159 ran in the session
             flagSess    |-> 0]      \* the session during which the flag was set (0: outside any)

InitCoqui ==
    /\ triggerFlag = FALSE
    /\ engRecorder = NoRec
    /\ registry = [d \in Devices |-> NoRec]
    /\ rec = [r \in RecIds |-> NewRecorder]
    /\ ctx = << >>
    /\ pc = "idle"
    /\ sess = 0
    /\ sdev = "d1"
    /\ streamContext = 0
    /\ result = Nil
    /\ text = Nil
    /\ elapsed = 0
    /\ endCause = "none"
    /\ ops = << >>
    /\ ret = Pending
    /\ hist = InitHist
    /\ last = [op |-> "init"]

\* ------------------------------------------------- the delegated engine
Langs     == {"en", "de", "fr"}
ProcNames == {"SnipsASR", "Other"}

\* SubprocessManager: a process that was never started
NoProcess == [state |-> "none", cmd |-> <<>>, autoRestart |-> FALSE,
              launchedAuto |-> FALSE,
              launches |-> 0, crashes |-> 0, handled |-> 0, restarts |-> 0,
              fatal |-> FALSE]

\* the system service snips-asr as systemd sees it
Services == [active : BOOLEAN, enabled : BOOLEAN]

\* the configuration values onStart reads ("" is an unset, falsy value)
RootDir   == "/home/pi/ProjectAlice"
MqttPort  == "1883"
ModelPath == "/usr/share/snips/snips-asr-model-en-500MB"
Configs   == [mqttHost     : {"localhost"},
              mqttUser     : {"", "alice"},
              mqttPassword : {"", "secret"},
              mqttTLSFile  : {"", "ca.crt"}]

InitSHist == [decodes   |-> 0,       \* delegated decodeStream calls made
              offPending|-> FALSE,   \* onAsrToggleOff arrived while the call was blocked
              wakes     |-> 0,       \* sleeps completed since that toggle-off
              sawTrue   |-> FALSE,   \* the call's latest poll read listening = True
              starts    |-> 0,       \* onStart calls made
              dev       |-> "",      \* session.deviceUid of the latest decodeStream call
              intent    |-> [d \in Devices |-> FALSE],
                                     \* listening intent per device: the latest of
                                     \* onStartListening / onAsrToggleOff for it
              crossed   |-> FALSE,   \* a poll read a listening state that is not the
                                     \* intent of the call's own device
              off       |-> "none"]  \* "seen": onAsrToggleOff arrived during the call;
                                     \* "missed": a later poll of the call read True

InitSnips(l) ==
    /\ lang = l
    /\ engine = "new"
    /\ listening = FALSE
    /\ spc = "idle"
    /\ sret = Pending
    /\ proc = [n \in ProcNames |-> NoProcess]
    /\ shist = InitSHist

\* no decorated call is being made
NoCall == [deco |-> "none"]
NoRes  == [done |-> FALSE]

InitEngines ==
    /\ InitCoqui
    /\ InitSnips("en")
    /\ service = [active |-> TRUE, enabled |-> TRUE]
    /\ cfg = [mqttHost |-> "localhost", mqttUser |-> "", mqttPassword |-> "",
              mqttTLSFile |-> ""]

InitBHist == [calls |-> <<>>,                \* the addToHistory calls made, in order
              stops |-> 0,                   \* onStop calls made
              stop  |-> [ret |-> "none"]]    \* what the last onStop saw and did; complete:
                                             \* online, up to date, credentials set,
                                             \* history and title non-empty

\* BugReportManager.__init__ (lines 39-52): recording iff the flag file exists
InitBug(flag) ==
    /\ flagFile = flag
    /\ recording = flag
    /\ history = <<>>
    /\ title = ""
    /\ issues = <<>>
    /\ bhist = InitBHist

\* no widget is looked at
NoWidgets == [built |-> FALSE]
NoDicts   == [done |-> FALSE]

InitUtil ==
    /\ dcall = NoCall
    /\ dres = NoRes
    /\ InitBug(FALSE)
    /\ widgets = NoWidgets
    /\ wout = NoDicts

Init ==
    /\ InitEngines
    /\ InitUtil

InitS ==
    /\ InitCoqui
    /\ \E l \in Langs : InitSnips(l)
    /\ service \in Services
    /\ cfg \in Configs
    /\ InitUtil

InLoop == pc \in {"pull", "feed", "decode", "notify"}

Step(name) == last' = [op |-> "step"]

\* --------------------------------------------------------- the VAD handlers
\* CoquiAsr.onVadUp
onVadUp ==
    /\ triggerFlag' = TRUE
    /\ hist' = [hist EXCEPT !.vadUpEver = TRUE, !.stopsSinceUp = 0,
                            !.flagSess = IF pc = "idle" THEN 0 ELSE sess]
    /\ Step("onVadUp")
    /\ UNCHANGED <<engRecorder, registry, rec, ctx, pc, sess, sdev, streamContext,
                   result, text, elapsed, endCause, ops, ret,
                   svars, dvars, bvars, wvars>>

\* What every onVadDown call leaves in the observations, whatever it does.
DownSeen(stopped) ==
    /\ hist' = [hist EXCEPT
          !.earlyDown = @ \/ (InLoop /\ ~hist.vadUpEver),
          !.gatedStopAt = IF @ = -1 /\ InLoop /\ triggerFlag /\ elapsed < Timeout
                          THEN elapsed ELSE @,
          !.vadStopEver = @ \/ stopped,
          !.stopsSinceUp = IF stopped THEN Sat(@) ELSE @]
    /\ last' = [op |-> "onVadDown", flagBefore |-> triggerFlag, stopped |-> stopped]

\* onVadDown that never reaches stopRecording()
onVadDownNoStop ==
    /\ DownSeen(FALSE)
    /\ UNCHANGED <<triggerFlag, engRecorder, registry, rec, ctx, pc, sess, sdev,
                   streamContext, result, text, elapsed, endCause, ops, ret,
                   svars, dvars, bvars, wvars>>

\* onVadDown that clears the flag itself before requesting the stop
onVadDownClears ==
    /\ IF ~triggerFlag \/ engRecorder = NoRec
         THEN /\ DownSeen(FALSE)
              /\ UNCHANGED rec
         ELSE /\ rec' = StopRecording(rec, engRecorder)
              /\ DownSeen(TRUE)
    /\ triggerFlag' = FALSE
    /\ UNCHANGED <<engRecorder, registry, ctx, pc, sess, sdev,
                   streamContext, result, text, elapsed, endCause, ops, ret,
                   svars, dvars, bvars, wvars>>

\* CoquiAsr.onVadDown
onVadDown ==
    /\ IF ~triggerFlag
         THEN /\ DownSeen(FALSE)
              /\ UNCHANGED rec
         ELSE IF engRecorder = NoRec
         THEN /\ DownSeen(FALSE)           \* None.stopRecording() raises in the handler
              /\ UNCHANGED rec
         ELSE /\ rec' = StopRecording(rec, engRecorder)
              /\ DownSeen(TRUE)
    /\ UNCHANGED <<triggerFlag, engRecorder, registry, ctx, pc, sess, sdev,
                   streamContext, result, text, elapsed, endCause, ops, ret,
                   svars, dvars, bvars, wvars>>

\* A stop command routed through the registry to the device's active recorder
ExternalStop(d) ==
    /\ registry[d] # NoRec
    /\ rec' = StopRecording(rec, registry[d])
    /\ Step("externalStop")
    /\ UNCHANGED <<triggerFlag, engRecorder, registry, ctx, pc, sess, sdev,
                   streamContext, result, text, elapsed, endCause, ops, ret, hist,
                   svars, dvars, bvars, wvars>>

\* ------------------------------------------------ CoquiAsr.decodeStream
\* lines 140-144: the call starts (only one decodeStream at a time), result = None,
\* the timeout clock and the stopwatch start
DecodeStreamCall(d) ==
    /\ pc = "idle"
    /\ sess < MaxSessions
    /\ sess' = sess + 1
    /\ sdev' = d
    /\ result' = Nil
    /\ text' = Nil
    /\ streamContext' = 0
    /\ elapsed' = 0
    /\ endCause' = "none"
    /\ ops' = << >>
    /\ hist' = [hist EXCEPT !.gatedStopAt = -1, !.everNonEmpty = FALSE,
                            !.chunks = 0, !.endCalled = FALSE, !.flagCleared = FALSE]
    /\ ret' = Pending
    /\ pc' = "enter"
    /\ Step("decodeStream")
    /\ UNCHANGED <<triggerFlag, engRecorder, registry, rec, ctx,
                   svars, dvars, bvars, wvars>>

\* line 145: with Recorder(self._timeout, session.user, session.deviceUid) as recorder
RecorderEnter ==
    /\ pc = "enter"
    /\ rec' = RecorderEnterRec(rec, sess)
    /\ registry' = RecorderEnterReg(registry, sess, sdev)
    /\ pc' = "add"
    /\ Step("decodeStream")
    /\ UNCHANGED <<triggerFlag, engRecorder, ctx, sess, sdev, streamContext,
                   result, text, elapsed, endCause, ops, ret, hist,
                   svars, dvars, bvars, wvars>>

\* addRecorder handed the engine's bound recorder instead of the new one
AddRecorderBound ==
    /\ pc = "add"
    /\ registry' = AddRecorderReg(registry, sdev, engRecorder)
    /\ pc' = "bind"
    /\ Step("decodeStream")
    /\ UNCHANGED <<triggerFlag, engRecorder, rec, ctx, sess, sdev, streamContext,
                   result, text, elapsed, endCause, ops, ret, hist,
                   svars, dvars, bvars, wvars>>

\* line 146: self.ASRManager.addRecorder(session.deviceUid, recorder)
AddRecorder ==
    /\ pc = "add"
    /\ registry' = AddRecorderReg(registry, sdev, sess)
    /\ pc' = "bind"
    /\ Step("decodeStream")
    /\ UNCHANGED <<triggerFlag, engRecorder, rec, ctx, sess, sdev, streamContext,
                   result, text, elapsed, endCause, ops, ret, hist,
                   svars, dvars, bvars, wvars>>

\* line 147: self._recorder = recorder
BindRecorder ==
    /\ pc = "bind"
    /\ engRecorder' = sess
    /\ pc' = "create"
    /\ Step("decodeStream")
    /\ UNCHANGED <<triggerFlag, registry, rec, ctx, sess, sdev, streamContext,
                   result, text, elapsed, endCause, ops, ret, hist,
                   svars, dvars, bvars, wvars>>

\* line 148: streamContext = self._model.createStream()
NewContext(s) == [owner |-> s, foreign |-> FALSE, finished |-> 0, late |-> 0]

CreateStream ==
    /\ pc = "create"
    /\ ctx' = Append(ctx, NewContext(sess))
    /\ streamContext' = Len(ctx) + 1
    /\ ops' = Append(ops, [op |-> "createStream"])
    /\ pc' = "pull"
    /\ Step("decodeStream")
    /\ UNCHANGED <<triggerFlag, engRecorder, registry, rec, sess, sdev,
                   result, text, elapsed, endCause, ret, hist,
                   svars, dvars, bvars, wvars>>

\* The chunk loop is left (iteration ended, or break on the sentinel)
LeaveLoop(cause) ==
    /\ endCause' = cause
    /\ pc' = "exit"
    /\ UNCHANGED <<elapsed, hist>>

\* A recorder without a timeout: with no stop request the pull made after the
\* configured time never comes back
PullNoTimeout ==
    /\ pc = "pull"
    /\ IF rec[sess].stop THEN LeaveLoop("stop")
       ELSE /\ elapsed < Timeout
            /\ \/ LeaveLoop("sentinel")
               \/ /\ elapsed' = elapsed + 1
                  /\ hist' = [hist EXCEPT !.chunks = @ + 1]
                  /\ pc' = "feed"
                  /\ UNCHANGED endCause
    /\ Step("decodeStream")
    /\ UNCHANGED <<triggerFlag, engRecorder, registry, rec, ctx, sess, sdev,
                   streamContext, result, text, ops, ret,
                   svars, dvars, bvars, wvars>>

\* line 149-151: for chunk in recorder / if not chunk: break
\* Recorder.__iter__ ends on a stop request or on the timeout; otherwise the
\* source yields a chunk one chunk period later, or the exhaustion sentinel.
Pull ==
    /\ pc = "pull"
    /\ IF rec[sess].stop THEN LeaveLoop("stop")
       ELSE IF elapsed >= Timeout THEN LeaveLoop("timeout")
       ELSE \/ LeaveLoop("sentinel")
            \/ /\ elapsed' = elapsed + 1
               /\ hist' = [hist EXCEPT !.chunks = @ + 1]
               /\ pc' = "feed"
               /\ UNCHANGED endCause
    /\ Step("decodeStream")
    /\ UNCHANGED <<triggerFlag, engRecorder, registry, rec, ctx, sess, sdev,
                   streamContext, result, text, ops, ret,
                   svars, dvars, bvars, wvars>>

\* StreamContext: an operation issued after finishStream() is a reuse of a dead context
\* (chunk is the session whose recorder produced the chunk)
FeedCtx(c, chunk) ==
    IF c.finished > 0 THEN [c EXCEPT !.late = Sat(@)]
    ELSE [c EXCEPT !.foreign = @ \/ (chunk # c.owner)]

\* An exception that leaves decodeStream without running Recorder.__exit__
PropagateNoExit ==
    /\ endCause' = "raised"
    /\ ret' = Raised
    /\ pc' = "idle"
    /\ UNCHANGED <<rec, registry>>

\* An exception caught around the loop: the session goes on to finishStream()
PropagateCaught ==
    /\ rec' = RecorderExitRec(rec, sess)
    /\ registry' = RecorderExitReg(registry, sess, sdev)
    /\ endCause' = "raised"
    /\ pc' = "finish"
    /\ UNCHANGED ret

\* An exception leaves decodeStream through both with blocks: Recorder.__exit__
\* runs, lines 158-167 do not
Propagate ==
    /\ rec' = RecorderExitRec(rec, sess)
    /\ registry' = RecorderExitReg(registry, sess, sdev)
    /\ endCause' = "raised"
    /\ ret' = Raised
    /\ pc' = "idle"

\* line 153: streamContext.feedAudioContent(np.frombuffer(chunk, np.int16))
Feed ==
    /\ pc = "feed"
    /\ \/ /\ ctx' = [ctx EXCEPT ![streamContext] = FeedCtx(@, sess)]
          /\ ops' = Append(ops, [op |-> "feed"])
          /\ pc' = "decode"
          /\ UNCHANGED <<rec, registry, endCause, ret>>
       \/ /\ Propagate
          /\ UNCHANGED <<ctx, ops>>
    /\ Step("decodeStream")
    /\ UNCHANGED <<triggerFlag, engRecorder, sess, sdev, streamContext,
                   result, text, elapsed, hist,
                   svars, dvars, bvars, wvars>>

\* line 155: result = streamContext.intermediateDecode()
IntermediateDecode ==
    /\ pc = "decode"
    /\ \/ /\ \E t \in Texts :
                /\ result' = t
                /\ hist' = [hist EXCEPT !.everNonEmpty = @ \/ (t # "")]
          /\ ctx' = [ctx EXCEPT ![streamContext].late =
                        IF ctx[streamContext].finished > 0 THEN Sat(@) ELSE @]
          /\ ops' = Append(ops, [op |-> "intermediateDecode"])
          /\ pc' = "notify"
          /\ UNCHANGED <<rec, registry, endCause, ret>>
       \/ /\ Propagate
          /\ UNCHANGED <<ctx, ops, result, hist>>
    /\ Step("decodeStream")
    /\ UNCHANGED <<triggerFlag, engRecorder, sess, sdev, streamContext,
                   text, elapsed,
                   svars, dvars, bvars, wvars>>

\* a loop that only notifies non-empty hypotheses
PartialTextCapturedIfText ==
    /\ pc = "notify"
    /\ ops' = IF result = "" THEN ops
              ELSE Append(ops, [op |-> "partialTextCaptured", session |-> sess,
                                likelihood |-> Likelihood, seconds |-> Seconds])
    /\ pc' = "pull"
    /\ Step("decodeStream")
    /\ UNCHANGED <<triggerFlag, engRecorder, registry, rec, ctx, sess, sdev,
                   streamContext, result, text, elapsed, endCause, ret, hist,
                   svars, dvars, bvars, wvars>>

\* line 156: self.partialTextCaptured(session=session, text=result, likelihood=1, seconds=0)
PartialTextCaptured ==
    /\ pc = "notify"
    /\ ops' = Append(ops, [op |-> "partialTextCaptured", session |-> sess,
                           likelihood |-> Likelihood, seconds |-> Seconds])
    /\ pc' = "pull"
    /\ Step("decodeStream")
    /\ UNCHANGED <<triggerFlag, engRecorder, registry, rec, ctx, sess, sdev,
                   streamContext, result, text, elapsed, endCause, ret, hist,
                   svars, dvars, bvars, wvars>>

\* end of the inner with block (line 145): Recorder.__exit__
RecorderExit ==
    /\ pc = "exit"
    /\ rec' = RecorderExitRec(rec, sess)
    /\ registry' = RecorderExitReg(registry, sess, sdev)
    /\ pc' = "finish"
    /\ Step("decodeStream")
    /\ UNCHANGED <<triggerFlag, engRecorder, ctx, sess, sdev, streamContext,
                   result, text, elapsed, endCause, ops, ret, hist,
                   svars, dvars, bvars, wvars>>

\* StreamContext.finishStream(): terminal for the context
FinishCtx(c) == [c EXCEPT !.finished = Sat(@)]

\* finishStream() skipped when nothing was recognised
FinishStreamIfResult ==
    /\ pc = "finish"
    /\ \E t \in Texts :
          /\ text' = t
          /\ ops' = IF Truthy(result) THEN Append(ops, [op |-> "finishStream", text |-> t])
                    ELSE ops
    /\ ctx' = IF Truthy(result) THEN [ctx EXCEPT ![streamContext] = FinishCtx(@)] ELSE ctx
    /\ pc' = "clear"
    /\ Step("decodeStream")
    /\ UNCHANGED <<triggerFlag, engRecorder, registry, rec, sess, sdev,
                   streamContext, result, elapsed, endCause, ret, hist,
                   svars, dvars, bvars, wvars>>

\* line 158: text = streamContext.finishStream()
FinishStream ==
    /\ pc = "finish"
    /\ \E t \in Texts :
          /\ text' = t
          /\ ops' = Append(ops, [op |-> "finishStream", text |-> t])
    /\ ctx' = [ctx EXCEPT ![streamContext] = FinishCtx(@)]
    /\ pc' = "clear"
    /\ Step("decodeStream")
    /\ UNCHANGED <<triggerFlag, engRecorder, registry, rec, sess, sdev,
                   streamContext, result, elapsed, endCause, ret, hist,
                   svars, dvars, bvars, wvars>>

\* line 159: self._triggerFlag.clear()
ClearFlag ==
    /\ pc = "clear"
    /\ triggerFlag' = FALSE
    /\ hist' = [hist EXCEPT !.flagCleared = TRUE, !.flagSess = 0]
    /\ pc' = "end"
    /\ Step("decodeStream")
    /\ UNCHANGED <<engRecorder, registry, rec, ctx, sess, sdev, streamContext,
                   result, text, elapsed, endCause, ops, ret,
                   svars, dvars, bvars, wvars>>

\* line 160: self.end()
End ==
    /\ pc = "end"
    /\ hist' = [hist EXCEPT !.endCalled = TRUE]
    /\ pc' = "return"
    /\ Step("decodeStream")
    /\ UNCHANGED <<triggerFlag, engRecorder, registry, rec, ctx, sess, sdev,
                   streamContext, result, text, elapsed, endCause, ops, ret,
                   svars, dvars, bvars, wvars>>

\* a return that packages the last partial hypothesis
ReturnValuePartial(res, txt, s) ==
    IF Truthy(res) THEN ASRResult(res, s, Likelihood) ELSE NoResult

\* lines 162-167: return ASRResult(text=text, ..., likelihood=1.0, ...) if result else None
ReturnValue(res, txt, s) ==
    IF Truthy(res) THEN ASRResult(txt, s, Likelihood) ELSE NoResult

Return ==
    /\ pc = "return"
    /\ ret' = ReturnValue(result, text, sess)
    /\ pc' = "idle"
    /\ Step("decodeStream")
    /\ UNCHANGED <<triggerFlag, engRecorder, registry, rec, ctx, sess, sdev,
                   streamContext, result, text, elapsed, endCause, ops, hist,
                   svars, dvars, bvars, wvars>>

\* The statements of a decodeStream call in progress (lines 145-167)
DecodeStreamStep ==
    \/ RecorderEnter
    \/ AddRecorder
    \/ BindRecorder
    \/ CreateStream
    \/ Pull
    \/ Feed
    \/ IntermediateDecode
    \/ PartialTextCaptured
    \/ RecorderExit
    \/ FinishStream
    \/ ClearFlag
    \/ End
    \/ Return

DecodeStream ==
    \/ \E d \in Devices : DecodeStreamCall(d)
    \/ DecodeStreamStep

Next ==
    \/ DecodeStream
    \/ onVadUp
    \/ onVadDown
    \/ \E d \in Devices : ExternalStop(d)

Spec == Init /\ [][Next]_vars

\* The thread running decodeStream keeps running: a call in progress executes its next
\* statement; a pull comes back within the recorder's timeout. Handlers and new calls
\* are under no obligation to happen.
NextLive ==
    \/ \E d \in Devices : sess < MaxLiveSessions /\ DecodeStreamCall(d)
    \/ DecodeStreamStep
    \/ onVadUp
    \/ onVadDown
    \/ \E d \in Devices : ExternalStop(d)

SpecLive == Init /\ [][NextLive]_vars /\ WF_vars(DecodeStreamStep)

\* ------------------------------------------- SubprocessManager (supervisor)
\* runSubprocess(name, cmd, autoRestart): launches the process
RunSubprocess(p, name, cmd, auto) ==
    [p EXCEPT ![name] = [@ EXCEPT !.state = "running", !.cmd = cmd,
                                  !.autoRestart = auto,
                                  !.launchedAuto = auto, !.launches = @ + 1,
                                  !.fatal = FALSE]]

\* terminateSubprocess(name): terminates and disables auto-restart
TerminateSubprocess(p, name) ==
    [p EXCEPT ![name] = IF @.state = "none" THEN @
                        ELSE [@ EXCEPT !.state = "stopped", !.autoRestart = FALSE]]

\* the supervised process exits unexpectedly
Crash(n) ==
    /\ proc[n].state = "running"
    /\ proc[n].crashes < MaxCrashes
    /\ proc' = [proc EXCEPT ![n].state = "crashed", ![n].crashes = @ + 1]
    /\ UNCHANGED <<cvars, dvars, bvars, wvars, service, cfg, lang, engine, listening, spc, sret, shist>>

\* the supervisor's health check finds the process gone
HealthCheck(n) ==
    /\ proc[n].state = "crashed"
    /\ proc' = [proc EXCEPT ![n] =
          IF @.autoRestart
          THEN [@ EXCEPT !.state = "running", !.handled = @ + 1,
                         !.restarts = @ + 1, !.launches = @ + 1]
          ELSE [@ EXCEPT !.state = "fatal", !.handled = @ + 1, !.fatal = TRUE]]
    /\ UNCHANGED <<cvars, dvars, bvars, wvars, service, cfg, lang, engine, listening, spc, sret, shist>>

\* another component starts a supervised process of its own
RunOther(auto) ==
    /\ proc["Other"].state = "none"
    /\ proc' = RunSubprocess(proc, "Other", <<"other">>, auto)
    /\ UNCHANGED <<cvars, dvars, bvars, wvars, service, cfg, lang, engine, listening, spc, sret, shist>>

\* ------------------------------------------------------------- SnipsAsr
\* a command line whose credentials depend on the password instead of the user
BuildCmdByPassword(c) ==
    <<"snips-asr", "--assistant", RootDir \o "/assistant",
      "--mqtt", c.mqttHost \o ":" \o MqttPort>>
    \o (IF c.mqttPassword # ""
          THEN <<"--mqtt-username", c.mqttUser, "--mqtt-password", c.mqttPassword>>
          ELSE <<>>)
    \o (IF c.mqttTLSFile # "" THEN <<"--mqtt-tls-cafile", c.mqttTLSFile>> ELSE <<>>)
    \o <<"--model", ModelPath>>
    \o <<"--partial">>

\* lines 80-89: the command line, as its blank-separated words
BuildCmd(c) ==
    <<"snips-asr", "--assistant", RootDir \o "/assistant",
      "--mqtt", c.mqttHost \o ":" \o MqttPort>>
    \o (IF c.mqttUser # ""
          THEN <<"--mqtt-username", c.mqttUser, "--mqtt-password", c.mqttPassword>>
          ELSE <<>>)
    \o (IF c.mqttTLSFile # "" THEN <<"--mqtt-tls-cafile", c.mqttTLSFile>> ELSE <<>>)
    \o <<"--model", ModelPath>>
    \o <<"--partial">>

\* installDependencies that stops the system service and leaves it enabled
SnipsInstallDependenciesStopOnly ==
    /\ engine = "new"
    /\ service' = [service EXCEPT !.active = FALSE]
    /\ engine' = "init"
    /\ UNCHANGED <<cvars, dvars, bvars, wvars, cfg, lang, listening, spc, sret, proc, shist>>

\* SnipsAsr.installDependencies (lines 54-57): systemctl stop, systemctl disable.
\* The engine's dependencies are installed before it is started.
SnipsInstallDependencies ==
    /\ engine = "new"
    /\ service' = [active |-> FALSE, enabled |-> FALSE]
    /\ engine' = "init"
    /\ UNCHANGED <<cvars, dvars, bvars, wvars, cfg, lang, listening, spc, sret, proc, shist>>

\* the engine receives sessions once its onStart has succeeded
EngineUp == engine = "started"

\* onStart with autoRestart=False
SnipsOnStartNoRestart ==
    /\ engine = "init"
    /\ shist' = [shist EXCEPT !.starts = Sat(@)]
    /\ IF lang # "en"
         THEN /\ engine' = "failed"
              /\ UNCHANGED proc
         ELSE /\ proc' = RunSubprocess(proc, "SnipsASR", BuildCmd(cfg), FALSE)
              /\ engine' = "started"
    /\ UNCHANGED <<cvars, dvars, bvars, wvars, service, cfg, lang, listening, spc, sret>>

\* onStart without the language test
SnipsOnStartAnyLang ==
    /\ engine = "init"
    /\ shist' = [shist EXCEPT !.starts = Sat(@)]
    /\ proc' = RunSubprocess(proc, "SnipsASR", BuildCmd(cfg), TRUE)
    /\ engine' = "started"
    /\ UNCHANGED <<cvars, dvars, bvars, wvars, service, cfg, lang, listening, spc, sret>>

\* SnipsAsr.onStart (lines 73-91)
SnipsOnStart ==
    /\ engine = "init"
    /\ shist' = [shist EXCEPT !.starts = Sat(@)]
    /\ IF lang # "en"
         THEN /\ engine' = "failed"       \* raise Exception(...)
              /\ UNCHANGED proc
         ELSE /\ proc' = RunSubprocess(proc, "SnipsASR", BuildCmd(cfg), TRUE)
              /\ engine' = "started"
    /\ UNCHANGED <<cvars, dvars, bvars, wvars, service, cfg, lang, listening, spc, sret>>

\* onStop that kills the process behind the supervisor's back
SnipsOnStopKill ==
    /\ engine = "started"
    /\ proc' = [proc EXCEPT !["SnipsASR"].state = "crashed"]
    /\ engine' = "stopped"
    /\ UNCHANGED <<cvars, dvars, bvars, wvars, service, cfg, lang, listening, spc, sret, shist>>

\* SnipsAsr.onStop (lines 94-96)
SnipsOnStop ==
    /\ engine = "started"
    /\ proc' = TerminateSubprocess(proc, "SnipsASR")
    /\ engine' = "stopped"
    /\ UNCHANGED <<cvars, dvars, bvars, wvars, service, cfg, lang, listening, spc, sret, shist>>

\* SnipsAsr.onStartListening (lines 60-61)
onStartListening(d) ==
    /\ EngineUp
    /\ listening' = TRUE
    /\ shist' = [shist EXCEPT !.offPending = FALSE, !.wakes = 0,
                              !.intent[d] = TRUE]
    /\ UNCHANGED <<cvars, dvars, bvars, wvars, service, cfg, lang, engine, spc, sret, proc>>

\* SnipsAsr.onAsrToggleOff (lines 64-65)
onAsrToggleOff(d) ==
    /\ EngineUp
    /\ listening' = FALSE
    /\ shist' = [shist EXCEPT !.offPending = (spc # "idle"),
                              !.wakes = IF shist.offPending THEN @ ELSE 0,
                              !.intent[d] = FALSE,
                              !.off = IF spc # "idle" /\ @ = "none" THEN "seen" ELSE @]
    /\ UNCHANGED <<cvars, dvars, bvars, wvars, service, cfg, lang, engine, spc, sret, proc>>

\* SnipsAsr.decodeStream is called (line 68)
SnipsDecodeCall(d) ==
    /\ EngineUp
    /\ spc = "idle"
    /\ shist.decodes < MaxDecodes
    /\ spc' = "check"
    /\ sret' = Pending
    /\ shist' = [shist EXCEPT !.decodes = @ + 1, !.offPending = FALSE,
                              !.wakes = 0, !.sawTrue = FALSE, !.dev = d,
                              !.crossed = FALSE, !.off = "none"]
    /\ UNCHANGED <<cvars, dvars, bvars, wvars, service, cfg, lang, engine, listening, proc>>

\* a decodeStream whose loop never leaves once entered
SnipsDecodeCheckStuck ==
    /\ spc = "check"
    /\ spc' = "sleep"
    /\ shist' = [shist EXCEPT !.sawTrue = listening]
    /\ UNCHANGED <<cvars, dvars, bvars, wvars, service, cfg, lang, engine, listening, sret, proc>>

\* line 69: while self._listening   (falling out of the loop returns None)
SnipsDecodeCheck ==
    /\ spc = "check"
    /\ IF listening
         THEN /\ spc' = "sleep"
              /\ shist' = [shist EXCEPT !.sawTrue = TRUE,
                                        !.crossed = @ \/ ~shist.intent[shist.dev],
                                        !.off = IF @ = "seen" THEN "missed" ELSE @]
              /\ UNCHANGED sret
         ELSE /\ spc' = "idle"
              /\ sret' = NoResult
              /\ shist' = [shist EXCEPT !.sawTrue = FALSE,
                                        !.crossed = @ \/ shist.intent[shist.dev],
                                        !.off = IF @ = "seen" THEN "none" ELSE @]
    /\ UNCHANGED <<cvars, dvars, bvars, wvars, service, cfg, lang, engine, listening, proc>>

\* line 70: time.sleep(0.1) is over
SnipsDecodeWake ==
    /\ spc = "sleep"
    /\ spc' = "check"
    /\ shist' = [shist EXCEPT !.wakes = IF shist.offPending THEN Sat(@) ELSE @]
    /\ UNCHANGED <<cvars, dvars, bvars, wvars, service, cfg, lang, engine, listening, sret, proc>>

NextS ==
    \/ SnipsInstallDependencies
    \/ SnipsOnStart
    \/ SnipsOnStop
    \/ \E d \in Devices : onStartListening(d)
    \/ \E d \in Devices : onAsrToggleOff(d)
    \/ \E d \in Devices : SnipsDecodeCall(d)
    \/ SnipsDecodeCheck
    \/ SnipsDecodeWake
    \/ \E n \in ProcNames : Crash(n)
    \/ \E n \in ProcNames : HealthCheck(n)
    \/ \E a \in BOOLEAN : RunOther(a)

SpecSnips == InitS /\ [][NextS]_vars

\* ------------------------------------------------------------- decorators
\* Values: Nil is None, "" an empty string; FuncValue is what the wrapped method
\* returns, HandlerValue what an offline handler returns.
FuncValue    == "func()"
HandlerValue == "offlineHandler()"
SettingVals  == {Nil, "x", "y"}

\* a call of a method decorated with IfSetting: the decorator's arguments and the
\* two configuration stores
IfSettingCalls ==
    [deco         : {"IfSetting"},
     settingName  : {Nil, "opt"},
     settingValue : SettingVals,
     inverted     : BOOLEAN,
     skillName    : {Nil, "Skill"},
     returnValue  : {Nil, "rv"},
     skillConfig  : SettingVals,      \* getSkillConfigByName(skillName, settingName)
     aliceConfig  : SettingVals]      \* getAliceConfigByName(settingName)

\* a call of a function decorated with Online: the decorator's arguments, the
\* internet state, what the wrapped function does, the talk strings and the session
OnlineCalls ==
    [deco           : {"Online"},
     text           : {"", "offline"},
     offlineHandler : BOOLEAN,
     returnText     : BOOLEAN,
     catchOnly      : BOOLEAN,
     online         : BOOLEAN,        \* internetManager.online
     funcRaises     : BOOLEAN,
     onlineAfter    : BOOLEAN,        \* internetManager.checkOnlineState()
     skillTalk      : {"", "skill talk"},     \* randomTalk(text, skill=skill)
     systemTalk     : {"", "system talk"},    \* randomTalk(text, skill='system')
     session        : {Nil, "inDialog", "noDialog"}]

\* the outcome of a decorated call
Outcome(called, value, raised, handled, said) ==
    [done |-> TRUE, called |-> called, ret |-> value, raised |-> raised,
     handled |-> handled, said |-> said]

\* line 258: the setting looked up
SettingLookup(c) == IF c.skillName # Nil THEN c.skillConfig ELSE c.aliceConfig

\* lines 252-267
settingDecorator(c) ==
    IF c.settingName = Nil
      THEN Outcome(FALSE, Nil, FALSE, FALSE, "none")
    ELSE IF SettingLookup(c) = Nil
      THEN Outcome(FALSE, c.returnValue, FALSE, FALSE, "none")
    ELSE IF \/ ~c.inverted /\ SettingLookup(c) = c.settingValue
            \/ c.inverted /\ SettingLookup(c) # c.settingValue
      THEN Outcome(TRUE, FuncValue, FALSE, FALSE, "none")
    ELSE Outcome(FALSE, c.returnValue, FALSE, FALSE, "none")

\* lines 95-97: the text to say
NewText(c) ==
    IF c.skillTalk # "" THEN c.skillTalk
    ELSE IF c.systemTalk # "" THEN c.systemTalk
    ELSE c.text

\* _exceptHandler (lines 88-113); called is whether the wrapped function has run
exceptHandler(c, called) ==
    IF c.offlineHandler
      THEN Outcome(called, HandlerValue, FALSE, TRUE, "none")
    ELSE IF NewText(c) = ""
      THEN Outcome(called, Nil, TRUE, FALSE, "none")
    ELSE IF c.returnText
      THEN Outcome(called, NewText(c), FALSE, FALSE, "none")
    ELSE IF c.session = Nil
      THEN Outcome(called, NewText(c), FALSE, FALSE, "none")     \* AttributeError
    ELSE IF c.session = "inDialog"
      THEN Outcome(called, Nil, FALSE, FALSE, "endDialog")
    ELSE Outcome(called, Nil, FALSE, FALSE, "say")

\* lines 155-167
offlineDecorator(c) ==
    IF c.online /\ ~c.funcRaises
      THEN Outcome(TRUE, FuncValue, FALSE, FALSE, "none")
    ELSE IF c.online /\ c.onlineAfter
      THEN Outcome(TRUE, Nil, TRUE, FALSE, "none")               \* raise
    ELSE IF c.catchOnly
      THEN Outcome(c.online, Nil, FALSE, FALSE, "none")
    ELSE exceptHandler(c, c.online)

IfSettingApply ==
    /\ dcall.deco = "IfSetting"
    /\ ~dres.done
    /\ dres' = settingDecorator(dcall)
    /\ UNCHANGED <<cvars, svars, bvars, wvars, dcall>>

OnlineApply ==
    /\ dcall.deco = "Online"
    /\ ~dres.done
    /\ dres' = offlineDecorator(dcall)
    /\ UNCHANGED <<cvars, svars, bvars, wvars, dcall>>

InitD ==
    /\ InitEngines
    /\ dcall \in IfSettingCalls \cup OnlineCalls
    /\ dres = NoRes
    /\ InitBug(FALSE)
    /\ widgets = NoWidgets
    /\ wout = NoDicts

NextD == IfSettingApply \/ OnlineApply

SpecDeco == InitD /\ [][NextD]_vars

\* ------------------------------------------------------- BugReportManager
ERROR_LOGS   == {"fatal", "error", "critical"}
LogFunctions == {"info", "error", "critical"}    \* the logging level of a call
LogLines     == {"line a", "line b"}

\* traceback.format_exc().strip(), as its lines; NoTraceback while no exception is active
NoTraceback == <<"NoneType: None">>
Tracebacks  == {NoTraceback,
                <<"Traceback (most recent call last):", "ValueError: a">>,
                <<"Traceback (most recent call last):", "KeyError: b">>}

\* .split('\n').pop()
LastLine(tb) == tb[Len(tb)]

\* what GitHub answers to the post: created, rejected, or no answer (requests raises)
PostAnswers == {Created, Created + 1, -1}

\* addToHistory that takes the title from every error logged
addToHistoryOverwrite(function, log, tb) ==
    /\ Len(bhist.calls) < MaxCalls
    /\ bhist' = [bhist EXCEPT !.calls = Append(@, [function |-> function, log |-> log,
                                                   tb |-> tb])]
    /\ IF ~recording
         THEN UNCHANGED <<history, title>>
         ELSE /\ history' = Append(history, log)
              /\ title' = IF function \in ERROR_LOGS /\ tb # NoTraceback
                            THEN LastLine(tb) ELSE title
    /\ UNCHANGED <<cvars, svars, dvars, wvars, recording, flagFile, issues>>

\* BugReportManager.addToHistory (lines 60-67)
addToHistory(function, log, tb) ==
    /\ Len(bhist.calls) < MaxCalls
    /\ bhist' = [bhist EXCEPT !.calls = Append(@, [function |-> function, log |-> log,
                                                   tb |-> tb])]
    /\ IF ~recording
         THEN UNCHANGED <<history, title>>
         ELSE /\ history' = Append(history, log)
              /\ title' = IF function \in ERROR_LOGS /\ title = "" /\ tb # NoTraceback
                            THEN LastLine(tb) ELSE title
    /\ UNCHANGED <<cvars, svars, dvars, wvars, recording, flagFile, issues>>

\* what an onStop call saw and did
StopSeen(outcome, after, online, upToDate, auth, posted) ==
    bhist' = [bhist EXCEPT !.stops = @ + 1,
                           !.stop = [ret |-> outcome, recording |-> recording,
                                     flagBefore |-> flagFile, flagAfter |-> after,
                                     posted |-> posted,
                                     complete |-> /\ online /\ upToDate /\ auth
                                                  /\ history # <<>> /\ title # ""]]

\* os.remove(self._flagFile): raises FileNotFoundError when the file is gone
RemoveFlag(online, upToDate, auth, posted) ==
    /\ flagFile' = FALSE
    /\ StopSeen(IF flagFile THEN "returned" ELSE "raised", FALSE, online, upToDate, auth, posted)

\* lines 101-102: the issue posted
Issue == [title |-> <<"[AUTO BUG REPORT]", title>>, body |-> history]

\* onStop that returns on the offline path without removing the flag file
BugOnStopKeepsFlag(online, upToDate, auth, answer) ==
    /\ bhist.stops < MaxStops
    /\ IF ~recording
         THEN /\ StopSeen("returned", flagFile, online, upToDate, auth, FALSE)
              /\ UNCHANGED <<flagFile, issues>>
       ELSE IF ~online
         THEN /\ StopSeen("returned", flagFile, online, upToDate, auth, FALSE)
              /\ UNCHANGED <<flagFile, issues>>
       ELSE IF ~upToDate \/ history = <<>> \/ title = "" \/ ~auth
         THEN /\ RemoveFlag(online, upToDate, auth, FALSE)
              /\ UNCHANGED issues
       ELSE IF answer = -1
         THEN /\ StopSeen("raised", flagFile, online, upToDate, auth, TRUE)
              /\ UNCHANGED <<flagFile, issues>>
       ELSE /\ issues' = IF answer = Created THEN Append(issues, Issue) ELSE issues
            /\ RemoveFlag(online, upToDate, auth, TRUE)
    /\ UNCHANGED <<cvars, svars, dvars, wvars, recording, history, title>>

\* BugReportManager.onStop (lines 70-109)
BugOnStop(online, upToDate, auth, answer) ==
    /\ bhist.stops < MaxStops
    /\ IF ~recording                                           \* lines 72-73
         THEN /\ StopSeen("returned", flagFile, online, upToDate, auth, FALSE)
              /\ UNCHANGED <<flagFile, issues>>
       ELSE IF ~online                                         \* lines 80-83
         THEN /\ RemoveFlag(online, upToDate, auth, FALSE)
              /\ UNCHANGED issues
       ELSE IF ~upToDate                                       \* lines 85-89
         THEN /\ RemoveFlag(online, upToDate, auth, FALSE)
              /\ UNCHANGED issues
       ELSE IF history = <<>> \/ title = ""                    \* lines 91-92
         THEN /\ RemoveFlag(online, upToDate, auth, FALSE)
              /\ UNCHANGED issues
       ELSE IF ~auth                                           \* lines 93-94
         THEN /\ RemoveFlag(online, upToDate, auth, FALSE)
              /\ UNCHANGED issues
       ELSE IF answer = -1                                     \* line 103 raises
         THEN /\ StopSeen("raised", flagFile, online, upToDate, auth, TRUE)
              /\ UNCHANGED <<flagFile, issues>>
       ELSE /\ issues' = IF answer = Created THEN Append(issues, Issue) ELSE issues
            /\ RemoveFlag(online, upToDate, auth, TRUE)        \* lines 103-109
    /\ UNCHANGED <<cvars, svars, dvars, wvars, recording, history, title>>

\* the flag file is created while Alice runs, to record the next run
CreateFlagFile ==
    /\ ~flagFile
    /\ flagFile' = TRUE
    /\ UNCHANGED <<cvars, svars, dvars, wvars, recording, history, title, issues, bhist>>

InitB ==
    /\ InitEngines
    /\ dcall = NoCall
    /\ dres = NoRes
    /\ \E f \in BOOLEAN : InitBug(f)
    /\ widgets = NoWidgets
    /\ wout = NoDicts

NextB ==
    \/ \E f \in LogFunctions, l \in LogLines, tb \in Tracebacks : addToHistory(f, l, tb)
    \/ \E o, u, a \in BOOLEAN, p \in PostAnswers : BugOnStop(o, u, a, p)
    \/ CreateFlagFile

SpecBug == InitB /\ [][NextB]_vars

\* ----------------------------------------------------------------- Widget
\* A mapping (dict) is the set of its <<key, value>> pairs; {} is the empty dict.
EmptyDict   == {}
ConfigDicts == {EmptyDict, {<<"token", "t1">>}, {<<"token", "t2">>}}

\* the rows a widget is built from (json.loads already applied to settings and configs)
WidgetRows ==
    [id       : {NoId, 7},
     skill    : {"Skill"},
     name     : {"clock", "note"},
     settings : {EmptyDict, {<<"x", "4">>}},
     configs  : ConfigDicts,
     page     : {1, 2}]

\* lines 58-73: the settings of a widget stored without any
DefaultSettings(page) == {<<"x", "0">>, <<"y", "0">>, <<"z", <<"nextZ", page>>>>}

\* Widget.__init__ (lines 40-76); a row without id is inserted and gets the id the
\* database hands out
NewWidget(row) ==
    [id       |-> IF row.id = NoId THEN 8 ELSE row.id,
     skill    |-> row.skill,
     name     |-> row.name,
     settings |-> IF row.settings = EmptyDict THEN DefaultSettings(row.page)
                  ELSE row.settings,
     configs  |-> IF row.configs = EmptyDict THEN EmptyDict ELSE row.configs,
     page     |-> row.page]

\* toDict that hands out the stored configs to everybody
toDictLeak(w, isAuth) ==
    [id             |-> w.id,
     skill          |-> w.skill,
     name           |-> w.name,
     settings       |-> w.settings,
     configs        |-> w.configs,
     configTemplate |-> <<"template", w.skill, w.name>>,
     page           |-> w.page,
     icon           |-> <<"icon", w.name>>,
     html           |-> <<"html", w.name>>,
     css            |-> <<"css", w.name>>]

\* Widget.toDict (lines 312-324); the template, icon, html and css are read from the
\* files of the widget's skill and name
toDict(w, isAuth) ==
    [id             |-> w.id,
     skill          |-> w.skill,
     name           |-> w.name,
     settings       |-> w.settings,
     configs        |-> IF isAuth THEN w.configs ELSE EmptyDict,
     configTemplate |-> <<"template", w.skill, w.name>>,
     page           |-> w.page,
     icon           |-> <<"icon", w.name>>,
     html           |-> <<"html", w.name>>,
     css            |-> <<"css", w.name>>]

\* toDict is called on both widgets
WidgetToDict(isAuth) ==
    /\ widgets.built
    /\ wout' = [done |-> TRUE, isAuth |-> isAuth,
                a |-> toDict(widgets.a, isAuth), b |-> toDict(widgets.b, isAuth)]
    /\ wout' # wout
    /\ UNCHANGED <<cvars, svars, dvars, bvars, widgets>>

InitW ==
    /\ InitEngines
    /\ dcall = NoCall
    /\ dres = NoRes
    /\ InitBug(FALSE)
    /\ \E row \in WidgetRows, other \in ConfigDicts :
          widgets = [built |-> TRUE, a |-> NewWidget(row),
                     b |-> NewWidget([row EXCEPT !.configs = other])]
    /\ wout = NoDicts

NextW == \E isAuth \in BOOLEAN : WidgetToDict(isAuth)

SpecWidget == InitW /\ [][NextW]_vars

\* ================================================================ properties
Returned     == pc = "idle" /\ ret.kind \in {"None", "ASRResult"}
LoopOver     == pc \in {"exit", "finish", "clear", "end", "return"} \/ (pc = "idle" /\ sess > 0)
CountOps(k)  == Cardinality({i \in 1..Len(ops) : ops[i].op = k})

\* C1: an onVadDown invoked before any onVadUp requests no stop (the capture keeps
\* running); an onVadDown that finds the flag set during the chunk loop, before the
\* timeout has elapsed, requests a stop on the capture's own recorder, and the loop
\* then ends at that same chunk boundary, strictly before the timeout, never by it.
C1_VadStop ==
    /\ ~hist.vadUpEver => ~hist.vadStopEver /\ ~triggerFlag
    /\ (~hist.vadUpEver /\ last.op = "onVadDown") => ~last.stopped
    /\ hist.gatedStopAt >= 0 =>
          /\ rec[sess].stop
          /\ LoopOver => /\ endCause \in {"stop", "raised"}
                         /\ elapsed = hist.gatedStopAt
                         /\ elapsed < Timeout

C1_Witness ==
    /\ hist.earlyDown
    /\ hist.gatedStopAt >= 0
    /\ Returned
    /\ endCause = "stop"
    /\ hist.chunks >= 1

\* C2: decodeStream returns an ASRResult if and only if at least one intermediate
\* decode of the session returned non-empty text (also when the last one was empty).
C2_ResultIffAnyPartial ==
    Returned => (ret.kind = "ASRResult" <=> hist.everNonEmpty)

\* C3: a returned ASRResult carries exactly the text finishStream() returned in
\* that session, not a partial hypothesis, and likelihood 1.0.
C3_ResultText ==
    (pc = "idle" /\ ret.kind = "ASRResult") =>
        /\ ops[Len(ops)].op = "finishStream"
        /\ ret.text = ops[Len(ops)].text
        /\ ret.likelihood = 1
        /\ ret.session = sess

C3_Witness ==
    /\ pc = "idle"
    /\ ret.kind = "ASRResult"
    /\ ret.text # result
    /\ ret.text = "b"

\* C4: in a session whose chunk loop ended by stop, timeout or sentinel, finishStream()
\* is called exactly once on the session's context, as the last operation on it; no
\* context ever receives a feed or an intermediate decode after its finishStream().
C4_FinishOnce ==
    /\ \A c \in 1..Len(ctx) : ctx[c].late = 0 /\ ctx[c].finished <= 1
    /\ pc \in {"clear", "end", "return"} \/ Returned =>
          /\ endCause \in {"stop", "timeout", "sentinel"}
          /\ ctx[streamContext].finished = 1
          /\ ctx[streamContext].owner = sess
          /\ CountOps("finishStream") = 1
          /\ ops[Len(ops)].op = "finishStream"

C4_Witness ==
    /\ Returned
    /\ hist.chunks >= 1
    /\ Len(ctx) >= 2
    /\ \A c \in 1..Len(ctx) : ctx[c].finished = 1

\* C5: the delegated decodeStream sleeps only after a poll that read listening = True;
\* once onAsrToggleOff has arrived while the call is blocked (and listening is not
\* switched on again) at most one sleep of PollMs completes, the call never starts
\* another sleep, and the call returns None, never an ASRResult.
C5_ToggleOffUnblocks ==
    /\ spc = "sleep" => shist.sawTrue
    /\ shist.offPending =>
          /\ ~listening
          /\ shist.wakes * PollMs <= PollMs
          /\ shist.wakes >= 1 => spc # "sleep"
    /\ (spc = "idle" /\ shist.decodes > 0) => sret = NoResult
    /\ spc # "idle" => sret = Pending

C5_Witness ==
    /\ shist.offPending
    /\ shist.wakes = 1
    /\ spc = "idle"
    /\ sret = NoResult

\* C6: a supervised process started with autoRestart=true is restarted once per
\* unexpected exit the supervisor finds (exactly once after a single one); a process
\* started with autoRestart=false is never restarted and its exit is fatal; the
\* recognition process SnipsASR is one of the former.
C6_RestartOnce ==
    /\ \A n \in ProcNames :
          /\ proc[n].restarts <= proc[n].handled
          /\ proc[n].handled <= proc[n].crashes
          /\ proc[n].launchedAuto =>
                proc[n].restarts = proc[n].handled /\ ~proc[n].fatal
          /\ ~proc[n].launchedAuto =>
                proc[n].restarts = 0 /\ (proc[n].handled >= 1 => proc[n].fatal)
          /\ proc[n].state # "none" => proc[n].launches = 1 + proc[n].restarts
    /\ proc["SnipsASR"].launches > 0 => proc["SnipsASR"].launchedAuto

C6_Witness ==
    /\ proc["SnipsASR"].crashes = 1
    /\ proc["SnipsASR"].handled = 1
    /\ proc["SnipsASR"].restarts = 1
    /\ proc["SnipsASR"].state = "running"
    /\ ~proc["Other"].launchedAuto
    /\ proc["Other"].crashes = 1
    /\ proc["Other"].fatal
    /\ proc["Other"].restarts = 0

\* C8: under an active language other than 'en', onStart fails, the recognition
\* subprocess is never launched and no delegated decodeStream ever runs.
C8_WrongLanguage ==
    lang # "en" =>
        /\ proc["SnipsASR"].launches = 0
        /\ proc["SnipsASR"].state = "none"
        /\ engine \in {"new", "init", "failed"}
        /\ shist.starts > 0 => engine = "failed"
        /\ shist.decodes = 0 /\ spc = "idle" /\ sret = Pending

C8_Witness ==
    /\ lang = "de"
    /\ engine = "failed"
    /\ shist.starts = 1
    /\ proc["Other"].state = "running"

\* C7: once a decodeStream call has returned or raised, no recorder holds its audio
\* handle and the registry has no entry left.
C7_Released ==
    pc = "idle" =>
        /\ \A r \in RecIds : ~rec[r].open
        /\ \A d \in Devices : registry[d] = NoRec

C7_Witness ==
    /\ pc = "idle"
    /\ ret = Raised
    /\ hist.chunks >= 2
    /\ rec[sess].stop

C10_LoopOrder ==
    /\ \A i \in 1..Len(ops) :
          /\ ops[i].op = "feed" =>
                /\ i > 1 /\ ops[i-1].op \in {"createStream", "partialTextCaptured"}
                /\ i < Len(ops) => ops[i+1].op = "intermediateDecode"
          /\ ops[i].op = "intermediateDecode" =>
                /\ i > 1 /\ ops[i-1].op = "feed"
                /\ i < Len(ops) => ops[i+1].op = "partialTextCaptured"
          /\ ops[i].op = "partialTextCaptured" =>
                /\ i > 1 /\ ops[i-1].op = "intermediateDecode"
                /\ ops[i].likelihood = 1 /\ ops[i].seconds = 0
    /\ pc \in {"pull", "exit", "finish", "clear", "end", "return"} \/ Returned =>
          /\ CountOps("partialTextCaptured") = CountOps("feed")
          /\ CountOps("feed") = hist.chunks
    /\ (Returned /\ hist.chunks = 0) =>
          CountOps("partialTextCaptured") = 0 /\ ret = NoResult

C10_Witness ==
    /\ Returned
    /\ hist.chunks >= 2
    /\ CountOps("partialTextCaptured") = hist.chunks
    /\ result = ""

\* C11: every session decodes on a stream context of its own, no chunk of another
\* session is ever fed to it, and nothing session N left behind acts on session N+1:
\* a VAD flag found set during a session was set during that session or between
\* sessions, never during an earlier one.
C11_Independent ==
    /\ \A c \in 1..Len(ctx) : ctx[c].owner = c /\ ~ctx[c].foreign
    /\ pc \in {"pull", "feed", "decode", "notify", "exit", "finish"} =>
          /\ streamContext = sess
          /\ ctx[streamContext].finished = 0
          /\ engRecorder = sess
    /\ (pc # "idle" /\ triggerFlag) => hist.flagSess \in {0, sess}

\* C19: an onVadDown requests a stop on the recorder of the capture in progress only
\* if an onVadUp was received during that same session.
C19_NoStaleVadStop ==
    (/\ last.op = "onVadDown"
     /\ last.stopped
     /\ pc # "idle"
     /\ engRecorder = sess
     /\ rec[sess].open) => hist.flagSess = sess

\* C20: when feedAudioContent or intermediateDecode raises, the call ends by raising:
\* nothing is returned, finishStream() is not called on the session's context, the
\* flag is not cleared and end() does not run.
C20_RaiseAborts ==
    endCause = "raised" =>
        /\ pc = "idle"
        /\ ret = Raised
        /\ CountOps("finishStream") = 0
        /\ ctx[streamContext].finished = 0
        /\ ~hist.flagCleared
        /\ ~hist.endCalled
        /\ ops[Len(ops)].op \in {"createStream", "partialTextCaptured", "feed"}

C20_Witness ==
    /\ endCause = "raised"
    /\ ret = Raised
    /\ triggerFlag
    /\ hist.flagSess = sess
    /\ ops[Len(ops)].op = "feed"
    /\ hist.chunks >= 2

\* C15: every embedded decodeStream call terminates, also when no VAD signal and no
\* external stop ever arrive: it leaves the chunk loop (stop, timeout or sentinel),
\* calls finishStream() once and returns; the only other way out is an exception of
\* the acoustic model, which ends the call at once.
C15_Terminates ==
    (pc # "idle") ~>
        (/\ pc = "idle"
         /\ \/ endCause = "raised" /\ ret = Raised
            \/ /\ endCause \in {"stop", "timeout", "sentinel"}
               /\ CountOps("finishStream") = 1
               /\ ret \in {NoResult} \cup {ASRResult(t, sess, Likelihood) : t \in Texts})

C15_Witness ==
    /\ pc = "idle"
    /\ endCause = "timeout"
    /\ hist.chunks = Timeout
    /\ ~hist.vadUpEver
    /\ \A r \in RecIds : ~rec[r].stop
    /\ CountOps("finishStream") = 1
    /\ ret # Pending

\* C12: once onStop has run, the recognition process is terminated and its
\* auto-restart is off: whatever the supervisor does afterwards, the process is not
\* running again (nothing in the engine starts it a second time).
C12_StoppedStays ==
    engine = "stopped" =>
        /\ proc["SnipsASR"].state = "stopped"
        /\ ~proc["SnipsASR"].autoRestart
        /\ proc["SnipsASR"].restarts = proc["SnipsASR"].handled

C12_Witness ==
    /\ engine = "stopped"
    /\ proc["SnipsASR"].crashes = 2
    /\ proc["SnipsASR"].handled = 1
    /\ proc["SnipsASR"].restarts = 1
    /\ proc["Other"].state = "running"

C14_PerDevice == ~shist.crossed

HasWord(cmd, w)      == \E i \in 1..Len(cmd) : cmd[i] = w
Follows(cmd, w, arg) == \E i \in 1..(Len(cmd) - 1) : cmd[i] = w /\ cmd[i + 1] = arg

\* C16: the command line the subprocess is launched with is determined by the
\* configuration: it always holds the assistant path, broker host:port, the model path
\* and --partial; the username and password arguments exactly when a broker user is
\* configured, the TLS CA-file argument exactly when a TLS file is configured; an
\* onStart that fails before the launch leaves no command line and no process behind.
C16_CmdFromConfig ==
    LET cmd == proc["SnipsASR"].cmd IN
    /\ proc["SnipsASR"].launches = 0 => cmd = <<>> /\ proc["SnipsASR"].state = "none"
    /\ proc["SnipsASR"].launches > 0 =>
          /\ cmd[1] = "snips-asr"
          /\ Follows(cmd, "--assistant", RootDir \o "/assistant")
          /\ Follows(cmd, "--mqtt", cfg.mqttHost \o ":" \o MqttPort)
          /\ Follows(cmd, "--model", ModelPath)
          /\ cmd[Len(cmd)] = "--partial"
          /\ HasWord(cmd, "--mqtt-username") <=> cfg.mqttUser # ""
          /\ HasWord(cmd, "--mqtt-password") <=> cfg.mqttUser # ""
          /\ cfg.mqttUser # "" =>
                /\ Follows(cmd, "--mqtt-username", cfg.mqttUser)
                /\ Follows(cmd, "--mqtt-password", cfg.mqttPassword)
          /\ HasWord(cmd, "--mqtt-tls-cafile") <=> cfg.mqttTLSFile # ""
          /\ cfg.mqttTLSFile # "" => Follows(cmd, "--mqtt-tls-cafile", cfg.mqttTLSFile)
          /\ cmd = BuildCmd(cfg)

C16_Witness ==
    /\ proc["SnipsASR"].state = "running"
    /\ proc["SnipsASR"].restarts = 1
    /\ cfg.mqttUser = ""
    /\ cfg.mqttPassword = "secret"
    /\ cfg.mqttTLSFile = "ca.crt"
    /\ Len(proc["SnipsASR"].cmd) = 10

\* C17: with a setting name given, the wrapped method is called exactly when the
\* looked-up setting equals settingValue (inverted=False), respectively differs from
\* it (inverted=True), an unset (None) setting included; when it is called its value
\* is returned, otherwise returnValue is.
C17_IfSettingIff ==
    (dres.done /\ dcall.deco = "IfSetting" /\ dcall.settingName # Nil) =>
        /\ dres.called <=> IF dcall.inverted
                             THEN SettingLookup(dcall) # dcall.settingValue
                             ELSE SettingLookup(dcall) = dcall.settingValue
        /\ dres.ret = IF dres.called THEN FuncValue ELSE dcall.returnValue
        /\ ~dres.raised

\* C18: a call decorated with Online(catchOnly=True) never raises; with
\* catchOnly=False and the system offline the wrapped function is not run and the
\* offline handler, or else the offline text, is used instead.
C18_OnlineCatchOnly ==
    (dres.done /\ dcall.deco = "Online") =>
        /\ dcall.catchOnly => ~dres.raised
        /\ (~dcall.catchOnly /\ ~dcall.online) =>
              /\ ~dres.called
              /\ dres.handled <=> dcall.offlineHandler
              /\ ~dcall.offlineHandler =>
                    \/ dres.raised /\ NewText(dcall) = ""
                    \/ dres.ret = NewText(dcall) /\ dres.said = "none"
                    \/ dres.ret = Nil /\ dres.said \in {"endDialog", "say"}

\* C21: an onAsrToggleOff that arrives while a delegated decodeStream call is in
\* progress is seen by the call: no later poll of that call reads the listening flag
\* as True, whatever onStartListening does in between.
C21_ToggleOffNeverLost == shist.off # "missed"

\* C22: an onVadDown that calls stopRecording() does so on the recorder of the
\* decodeStream call in progress, after line 147 has bound it: never while no call is
\* running and never on the recorder an earlier call left bound.
C22_StopOnlyCurrent ==
    (last.op = "onVadDown" /\ last.stopped) =>
        /\ pc # "idle"
        /\ engRecorder = sess

\* C23: wherever a chunk can be pulled or is being processed, the registry maps the
\* session's deviceUid to the session's own, open recorder, so that a stop routed
\* through the registry for that device sets the stop request of that recorder.
C23_RegisteredBeforePull ==
    InLoop =>
        /\ registry[sdev] = sess
        /\ rec[sess].open
        /\ StopRecording(rec, registry[sdev])[sess].stop

C23_Witness ==
    /\ pc = "pull"
    /\ sess = 2
    /\ registry[sdev] = sess
    /\ rec[sess].stop
    /\ ~hist.vadUpEver
    /\ hist.chunks = 1

\* C24: an onStop that returns normally while recording has removed the flag file; it
\* posts only when online, up to date, with a non-empty history and title and with
\* GitHub credentials; while not recording it posts nothing and leaves the flag file
\* as it is. Issues exist only for what was recorded.
C24_StopRemovesFlag ==
    /\ bhist.stop.ret = "returned" =>
          /\ bhist.stop.recording => ~bhist.stop.flagAfter
          /\ ~bhist.stop.recording =>
                ~bhist.stop.posted /\ bhist.stop.flagAfter = bhist.stop.flagBefore
    /\ bhist.stop.ret # "none" =>
          (bhist.stop.posted => bhist.stop.recording /\ bhist.stop.complete)
    /\ issues # <<>> => recording /\ history # <<>> /\ title # ""
    /\ ~recording => issues = <<>>

C24_Witness ==
    /\ bhist.stop.ret = "returned"
    /\ bhist.stop.recording
    /\ bhist.stop.posted
    /\ issues = <<>>
    /\ ~flagFile
    /\ bhist.stops = 1

\* the title the calls made so far should have produced
RECURSIVE FirstErrorTitle(_)
FirstErrorTitle(calls) ==
    IF calls = <<>> THEN ""
    ELSE IF Head(calls).function \in ERROR_LOGS /\ Head(calls).tb # NoTraceback
      THEN LastLine(Head(calls).tb)
    ELSE FirstErrorTitle(Tail(calls))

\* C25: when not recording, history and title stay empty; when recording, the history
\* is the log lines of all addToHistory calls in call order, and the title is the last
\* traceback line of the first call logged at fatal/error/critical while an exception
\* was active (empty while there was none).
C25_HistoryAndTitle ==
    /\ ~recording => history = <<>> /\ title = ""
    /\ recording =>
          /\ history = [i \in 1..Len(bhist.calls) |-> bhist.calls[i].log]
          /\ title = FirstErrorTitle(bhist.calls)

C25_Witness ==
    /\ recording
    /\ Len(bhist.calls) = 2
    /\ bhist.calls[1].function = "error"
    /\ bhist.calls[1].tb = NoTraceback
    /\ bhist.calls[2].function = "critical"
    /\ bhist.calls[2].tb # NoTraceback
    /\ title = "KeyError: b"
    /\ history = <<"line b", "line a">>

\* C26: toDict(isAuth=False) gives an empty 'configs' and the same output for two
\* widgets that differ only in their configs; the stored configs are returned only,
\* and always, with isAuth true.
C26_ConfigsHidden ==
    wout.done =>
        /\ ~wout.isAuth =>
              /\ wout.a.configs = EmptyDict
              /\ wout.b.configs = EmptyDict
              /\ wout.a = wout.b
        /\ wout.isAuth =>
              /\ wout.a.configs = widgets.a.configs
              /\ wout.b.configs = widgets.b.configs
        /\ \A o \in {wout.a, wout.b} : o.configs # EmptyDict => wout.isAuth

C26_Witness ==
    /\ wout.done
    /\ ~wout.isAuth
    /\ widgets.a.configs = {<<"token", "t1">>}
    /\ widgets.b.configs = {<<"token", "t2">>}
    /\ wout.a = wout.b
    /\ widgets.a.id = 8

=============================================================================
